---- MODULE Spec2Model ----
(***************************************************************************)
(* The online-research pipeline of custom_deep_research: six nodes run in  *)
(* a fixed order over one OnlineResearchState record.                      *)
(*                                                                         *)
(* Conventions of the model                                                *)
(*  - text that the code inspects character by character (the query        *)
(*    generator's model response) is a sequence of one-character strings;  *)
(*  - a Python dict is a sequence of <<key, value>> pairs with distinct    *)
(*    keys, in insertion order (what dict and the JSON round trip keep);   *)
(*  - a float score s in [0,1] that enters the credibility composite is    *)
(*    the integer 1000*s; the composite itself is kept exactly, as an      *)
(*    integer over FinalScale; the quality scores of the state are exact   *)
(*    fractions [num, den];                                                *)
(*  - None (a missing field read with .get) is the string NoneValue.       *)
(***************************************************************************)
EXTENDS Integers, Sequences, FiniteSets, TLC

VARIABLES
    state,        \* the OnlineResearchState threaded through the nodes
    pc,           \* the node app.invoke runs next, "END", or "raised"
    executed,     \* history: the nodes started so far, in order
    snapshot,     \* history: selected_urls as the validator and the extractor found it
    observed,     \* history: what the external services answered in this run
    call,         \* a direct call of one function of the repository: its arguments
    ret           \* ... and what it returned

vars == <<state, pc, executed, snapshot, observed, call, ret>>

(***************************************************************************)
(* Bounds of the model.                                                    *)
(***************************************************************************)
MaxBasic == 6        \* most entries of a mapping of BasicUrls

MaxContent == 2      \* most entries of an extracted_content given to a tool directly

MaxResults == 2      \* most records the search provider returns

(***************************************************************************)
(* Python helpers.                                                         *)
(***************************************************************************)
NoneValue == "<None>"

Range(s) == {s[i] : i \in 1..Len(s)}

Min(a, b) == IF a <= b THEN a ELSE b

Max(a, b) == IF a >= b THEN a ELSE b

\* dict as an insertion-ordered sequence of <<key, value>> pairs
DictKeys(d) == [i \in 1..Len(d) |-> d[i][1]]

DictKeySet(d) == {d[i][1] : i \in 1..Len(d)}

DictHas(d, k) == k \in DictKeySet(d)

DictGet(d, k) == d[CHOOSE i \in 1..Len(d) : d[i][1] = k][2]

\* d[k] = v: an existing key keeps its position, a new key goes last
DictPut(d, k, v) ==
    IF DictHas(d, k)
    THEN [i \in 1..Len(d) |-> IF d[i][1] = k THEN <<k, v>> ELSE d[i]]
    ELSE Append(d, <<k, v>>)

RECURSIVE SeqSum(_)
SeqSum(s) == IF s = <<>> THEN 0 ELSE Head(s) + SeqSum(Tail(s))

\* all sequences over S of length at most n
SeqsUpTo(S, n) == UNION {[1..k -> S] : k \in 0..n}

(***************************************************************************)
(* str.split, str.strip, str.isdigit on character sequences.               *)
(***************************************************************************)
Whitespace == {" ", "\t", "\n", "\r"}

Digits == {"0", "1", "2", "3", "4", "5", "6", "7", "8", "9"}

RECURSIVE SplitLines(_)
SplitLines(s) ==
    IF s = <<>> THEN << <<>> >>
    ELSE LET rest == SplitLines(Tail(s)) IN
         IF Head(s) = "\n"
         THEN << <<>> >> \o rest
         ELSE << <<Head(s)>> \o Head(rest) >> \o Tail(rest)

RECURSIVE LStrip(_, _)
LStrip(s, chars) ==
    IF s # <<>> /\ Head(s) \in chars THEN LStrip(Tail(s), chars) ELSE s

RECURSIVE RStrip(_, _)
RStrip(s, chars) ==
    IF s # <<>> /\ s[Len(s)] \in chars
    THEN RStrip(SubSeq(s, 1, Len(s) - 1), chars)
    ELSE s

Strip(s, chars) == RStrip(LStrip(s, chars), chars)

(***************************************************************************)
(* Scores.  A sub-score s is the integer 1000*s.  The composite            *)
(*   final = rule_based*(1 - llm_weight) + llm_score*llm_weight            *)
(*   rule_based = 0.5*domain_score + 0.5*content_score                     *)
(* is kept exactly as the integer FinalScale*final.                        *)
(***************************************************************************)
Milli == 1000

FinalScale == 2000000

\* an exact fraction, for the quality scores of the state
Frac(n, d) == [num |-> n, den |-> d]

FracZero == Frac(0, 1)

FracIsZero(f) == f.num = 0

FracInUnit(f) == f.den > 0 /\ 0 <= f.num /\ f.num <= f.den

\* faulty variant: the cap at 1.0 is missing
FracUncapped(f) == f

\* min(f, 1.0)
FracMin1(f) == IF f.num > f.den THEN Frac(1, 1) ELSE f

\* (a + b) / 2
FracMean2(a, b) == Frac(a.num * b.den + b.num * a.den, 2 * a.den * b.den)

(***************************************************************************)
(* The universe of URLs and search-result records the provider may return. *)
(* A record keeps what the validator reads: url (NoneValue: no url field), *)
(* len(title) (0: empty or missing title), whether the title holds a       *)
(* clickbait phrase, len(snippet), and whether a date is present.          *)
(***************************************************************************)
UrlNews == "https://www.bbc.com/news/a"

UrlBlog == "http://blog.example.io/post"

\* a second page of the first site
UrlNewsB == "https://www.bbc.com/news/b"

Urls == {UrlNews, UrlBlog}

\* urlparse(url).netloc.lower(), as its dot-separated labels
Netloc(url) ==
    CASE url = UrlNews -> <<"www", "bbc", "com">>
      [] url = UrlNewsB -> <<"www", "bbc", "com">>
      [] url = UrlBlog -> <<"blog", "example", "io">>
      [] OTHER -> <<>>

Result(url, title_len, clickbait, snippet_len, has_date) ==
    [url |-> url, title_len |-> title_len, clickbait |-> clickbait,
     snippet_len |-> snippet_len, has_date |-> has_date]

ResultNews == Result(UrlNews, 30, FALSE, 10, FALSE)

ResultBlog == Result(UrlBlog, 0, FALSE, 0, FALSE)

ResultNoUrl == Result(NoneValue, 30, FALSE, 80, TRUE)

ResultPool == {ResultNews, ResultBlog, ResultNoUrl}

\* a value Python treats as false: None or ''
Falsy(x) == x = NoneValue \/ x = ""

(***************************************************************************)
(* source_validation_function and its nested helpers.                      *)
(***************************************************************************)
high_credibility_domains ==
    { <<"nature", "com">>, <<"science", "org">>, <<"cell", "com">>,
      <<"nejm", "org">>, <<"bmj", "com">>, <<"who", "int">>, <<"cdc", "gov">>,
      <<"nih", "gov">>, <<"fda", "gov">>, <<"europa", "eu">>,
      <<"reuters", "com">>, <<"apnews", "com">>, <<"bbc", "com">>,
      <<"economist", "com">>, <<"ft", "com">>, <<"wsj", "com">>,
      <<"nytimes", "com">>, <<"theguardian", "com">>, <<"wikipedia", "org">>,
      <<"britannica", "com">>, <<"arxiv", "org">>,
      <<"pubmed", "ncbi", "nlm", "nih", "gov">> }

low_credibility_domains ==
    { <<"dailymail", "co", "uk">>, <<"breitbart", "com">>,
      <<"infowars", "com">>, <<"naturalnews", "com">>, <<"mercola", "com">>,
      <<"zerohedge", "com">>, <<"youtube", "com">> }

\* netloc.replace('www.', ''): on labels, every label "www" goes
extract_domain(url) ==
    IF Falsy(url) THEN <<>>
    ELSE SelectSeq(Netloc(url), LAMBDA l : l # "www")

\* re.search(r'\.x$', domain): the last label is x and a label precedes it
EndsWithLabel(domain, x) == Len(domain) >= 2 /\ domain[Len(domain)] = x

\* re.search(r'\.x\.', domain): x is a label with a label on each side
HasInnerLabel(domain, x) == \E i \in 2..(Len(domain) - 1) : domain[i] = x

assess_domain_credibility(domain) ==
    IF domain \in high_credibility_domains THEN 900
    ELSE IF domain \in low_credibility_domains THEN 200
    ELSE IF \/ EndsWithLabel(domain, "edu")
            \/ HasInnerLabel(domain, "ac")
            \/ EndsWithLabel(domain, "org") THEN 800
    ELSE IF EndsWithLabel(domain, "gov") \/ HasInnerLabel(domain, "gov") THEN 850
    ELSE 500

\* what requests.head did: raised a RequestException, or answered a status
HeadOutcomes ==
    { [raised |-> FALSE, status_code |-> 200],
      [raised |-> FALSE, status_code |-> 404],
      [raised |-> TRUE, status_code |-> 0] }

\* status_code 0 stands for None, error "" for a dict without 'error'
check_url_accessibility(check_accessibility, head) ==
    IF ~check_accessibility
    THEN [accessible |-> TRUE, status_code |-> 200, error |-> ""]
    ELSE IF head.raised
    THEN [accessible |-> FALSE, status_code |-> 0, error |-> "RequestException"]
    ELSE [accessible |-> head.status_code = 200,
          status_code |-> head.status_code, error |-> ""]

assess_content_quality(result) ==
    LET title_score ==
            IF result.title_len = 0 THEN 0
            ELSE (IF 20 <= result.title_len /\ result.title_len <= 120 THEN 300
                  ELSE IF 10 <= result.title_len /\ result.title_len < 200 THEN 200
                  ELSE 100)
                 + (IF ~result.clickbait THEN 200 ELSE 0)
        snippet_score == IF result.snippet_len > 50 THEN 200 ELSE 0
        date_score == IF result.has_date THEN 100 ELSE 0
    IN Min(1000, title_score + snippet_score + date_score)

\* the value of the digit character c
DigitVal(c) == CHOOSE n \in 0..9 : <<"0", "1", "2", "3", "4", "5", "6", "7", "8", "9">>[n + 1] = c

\* the digits of s from position i on, as far as they go
RECURSIVE DigitRun(_, _)
DigitRun(s, i) ==
    IF i <= Len(s) /\ s[i] \in Digits THEN <<s[i]>> \o DigitRun(s, i + 1) ELSE <<>>

\* 1000 * float("0." + digits), for at most three digits
MilliOfFraction(ds) ==
    (IF Len(ds) >= 1 THEN 100 * DigitVal(ds[1]) ELSE 0)
    + (IF Len(ds) >= 2 THEN 10 * DigitVal(ds[2]) ELSE 0)
    + (IF Len(ds) >= 3 THEN DigitVal(ds[3]) ELSE 0)

\* re.findall(r'0\.\d+|1\.0|0|1', s)[0] as 1000*float, or -1 without a match
RECURSIVE FirstNumber(_, _)
FirstNumber(s, i) ==
    IF i > Len(s) THEN -1
    ELSE IF s[i] = "0" /\ i + 2 <= Len(s) /\ s[i + 1] = "." /\ s[i + 2] \in Digits
    THEN MilliOfFraction(DigitRun(s, i + 2))
    ELSE IF s[i] = "1" /\ i + 2 <= Len(s) /\ s[i + 1] = "." /\ s[i + 2] = "0"
    THEN 1000
    ELSE IF s[i] = "0" THEN 0
    ELSE IF s[i] = "1" THEN 1000
    ELSE FirstNumber(s, i + 1)

\* what llm.invoke did for one source: raised, or answered this text
CredibilityResponses ==
    { [raised |-> TRUE, content |-> <<>>],
      [raised |-> FALSE, content |-> <<"N", "/", "A">>],
      [raised |-> FALSE, content |-> <<"0", ".", "3", "7", "5">>],
      [raised |-> FALSE, content |-> <<" ", "0", "\n">>] }

\* faulty variant: a failed call or an answer without a number scores 0.0
use_llm_for_credibility_zero(response) ==
    IF response.raised THEN 0
    ELSE LET score_text == Strip(response.content, Whitespace)
             number == FirstNumber(score_text, 1)
         IN IF number >= 0 THEN Min(1000, Max(0, number)) ELSE 0

use_llm_for_credibility(response) ==
    IF response.raised THEN 500
    ELSE LET score_text == Strip(response.content, Whitespace)
             number == FirstNumber(score_text, 1)
         IN IF number >= 0 THEN Min(1000, Max(0, number)) ELSE 500

\* 2000 * rule_based_score
RuleBasedScore2(domain_score, content_score) == domain_score + content_score

\* faulty variant: the two weights of the blend are exchanged
FinalScoreWeightsSwapped(domain_score, content_score, llm_score, llm_weight) ==
    ((domain_score + content_score) * llm_weight)
    + (2 * llm_score * (Milli - llm_weight))

\* FinalScale * final_score, llm_weight given as 1000 * weight
FinalScore(domain_score, content_score, llm_score, llm_weight) ==
    (RuleBasedScore2(domain_score, content_score) * (Milli - llm_weight))
    + (2 * llm_score * llm_weight)

\* the threshold 1000 * t on the scale of FinalScore
OnFinalScale(t) == t * (FinalScale \div Milli)

\* faulty variant: the source is stored under the address the redirects ended at
SourceKeyFinalUrl(url) ==
    IF url = UrlBlog THEN "https://blog.example.io/post" ELSE url

\* the key of validated_sources[url] and credibility_scores[url]
SourceKey(url) == url

\* faulty variant: a score equal to the threshold is rejected
AcceptsAboveThreshold(final_score, min_credibility_threshold, accessibility) ==
    final_score > min_credibility_threshold * (FinalScale \div Milli)
    /\ accessibility.accessible

Accepts(final_score, min_credibility_threshold, accessibility) ==
    final_score >= OnFinalScale(min_credibility_threshold) /\ accessibility.accessible

ReasonParts(final_score, min_credibility_threshold, accessibility) ==
    (IF final_score < OnFinalScale(min_credibility_threshold)
     THEN <<"Low credibility score">> ELSE <<>>)
    \o (IF ~accessibility.accessible
        THEN <<IF accessibility.error = "" THEN "Not accessible: Unknown error"
               ELSE "Not accessible: RequestException">>
        ELSE <<>>)

\* One pass of the loop body over search_results[i]; ext[i] holds what the
\* HEAD request and the model call of this pass did.  acc carries the three
\* collections of the loop and the decision taken for each record.
ValidateOne(acc, result, ext, min_credibility_threshold, llm_weight, check_accessibility) ==
    LET url == IF result.url = NoneValue THEN "" ELSE result.url
        domain == extract_domain(url)
    IN IF Falsy(url)
       THEN [acc EXCEPT
               !.removed_sources = Append(@, [url |-> url, reason |-> <<"No URL provided">>,
                                              credibility_score |-> -1]),
               !.decisions = Append(@, [url |-> url, decision |-> "no_url",
                                        final_score |-> -1, llm_score |-> -1,
                                        accessible |-> FALSE])]
       ELSE
       LET accessibility == check_url_accessibility(check_accessibility, ext.head)
           domain_score == assess_domain_credibility(domain)
           content_score == assess_content_quality(result)
           llm_score == use_llm_for_credibility(ext.llm)
           final_score == FinalScore(domain_score, content_score, llm_score, llm_weight)
       IN IF Accepts(final_score, min_credibility_threshold, accessibility)
          THEN [acc EXCEPT
                  !.validated_sources =
                      DictPut(@, SourceKey(url),
                              [domain |-> domain, accessibility |-> accessibility,
                               domain_score |-> domain_score,
                               content_score |-> content_score,
                               llm_score |-> llm_score,
                               final_score |-> final_score]),
                  !.credibility_scores = DictPut(@, SourceKey(url), final_score),
                  !.decisions = Append(@, [url |-> url, decision |-> "validated",
                                           final_score |-> final_score,
                                           llm_score |-> llm_score,
                                           accessible |-> accessibility.accessible])]
          ELSE [acc EXCEPT
                  !.removed_sources =
                      Append(@, [url |-> url,
                                 reason |-> ReasonParts(final_score, min_credibility_threshold,
                                                        accessibility),
                                 credibility_score |-> final_score]),
                  !.decisions = Append(@, [url |-> url, decision |-> "removed",
                                           final_score |-> final_score,
                                           llm_score |-> llm_score,
                                           accessible |-> accessibility.accessible])]

RECURSIVE ValidateLoop(_, _, _, _, _, _, _)
ValidateLoop(acc, search_results, exts, i, min_credibility_threshold, llm_weight, check_accessibility) ==
    IF i > Len(search_results) THEN acc
    ELSE ValidateLoop(
             ValidateOne(acc, search_results[i], exts[i], min_credibility_threshold,
                         llm_weight, check_accessibility),
             search_results, exts, i + 1, min_credibility_threshold, llm_weight,
             check_accessibility)

\* sum(credibility_scores.values()) / len(credibility_scores), else 0.0
CredibilityAverage(credibility_scores) ==
    IF Len(credibility_scores) > 0
    THEN Frac(SeqSum([i \in 1..Len(credibility_scores) |-> credibility_scores[i][2]]),
              Len(credibility_scores) * FinalScale)
    ELSE FracZero

\* The JSON document the tool returns, as the record json.loads gives back
\* and with the node's .get defaults for the keys the document lacks
\* (llm_init = FALSE: AzureChatOpenAI(...) raised, the document is an error
\* document).  decisions is no part of the document: it lists the branch the
\* loop took for each record.
source_validation_function(search_results, min_credibility_threshold, llm_weight, check_accessibility, llm_init, exts) ==
    IF ~llm_init
    THEN [error |-> TRUE, validated_sources |-> <<>>, credibility_scores |-> <<>>,
          removed_sources |-> <<>>, credibility_average |-> FracZero,
          total_validated |-> 0, total_removed |-> 0, decisions |-> <<>>]
    ELSE
    LET acc == ValidateLoop([validated_sources |-> <<>>, credibility_scores |-> <<>>,
                             removed_sources |-> <<>>, decisions |-> <<>>],
                            search_results, exts, 1, min_credibility_threshold,
                            llm_weight, check_accessibility)
    IN [error |-> FALSE,
        validated_sources |-> acc.validated_sources,
        credibility_scores |-> acc.credibility_scores,
        removed_sources |-> acc.removed_sources,
        credibility_average |-> CredibilityAverage(acc.credibility_scores),
        total_validated |-> Len(acc.validated_sources),
        total_removed |-> Len(acc.removed_sources),
        decisions |-> acc.decisions]

(***************************************************************************)
(* OnlineResearchState as run_online_research constructs it.               *)
(***************************************************************************)
InitialState ==
    [ search_depth |-> "deep",
      search_queries |-> <<>>,
      raw_search_results |-> <<>>,
      selected_urls |-> <<>>,
      extracted_content |-> <<>>,
      content_stats |-> <<>>,
      failed_extractions |-> <<>>,
      validated_sources |-> <<>>,
      source_credibility_scores |-> <<>>,
      removed_sources |-> <<>>,
      key_findings |-> <<>>,
      contradictions |-> <<>>,
      consensus_points |-> <<>>,
      research_gaps |-> <<>>,
      synthesized_report |-> <<>>,
      executive_summary |-> "",
      detailed_analysis |-> <<>>,
      source_bibliography |-> <<>>,
      current_step |-> "starting",
      errors |-> <<>>,
      warnings |-> <<>>,
      source_diversity_score |-> FracZero,
      information_depth_score |-> FracZero,
      credibility_average |-> FracZero,
      coverage_completeness |-> FracZero ]

\* what a node hands back: the exception it raised ("" when it returned)
\* and the state object as the node left it
Returned(s) == [raised |-> "", state |-> s, calls |-> <<>>]

Raised(s, exception) == [raised |-> exception, state |-> s, calls |-> <<>>]

\* the node returned after the tool it ran had issued these completion calls
ReturnedAfter(s, calls) == [raised |-> "", state |-> s, calls |-> calls]

(***************************************************************************)
(* generate_queries_llm_node                                               *)
(***************************************************************************)
\* [q.strip("- ") for q in queries_text.split("\n") if q.strip()]
ParseQueries(queries_text) ==
    LET lines == SelectSeq(SplitLines(queries_text),
                           LAMBDA q : Strip(q, Whitespace) # <<>>)
    IN [i \in 1..Len(lines) |-> Strip(lines[i], {"-", " "})]

\* if not queries[0][0].isdigit(): queries = queries[1:]
DropLeadingLine(queries) ==
    IF ~(queries[1][1] \in Digits) THEN Tail(queries) ELSE queries

\* faulty variant: no usable line gives an empty list of queries
generate_queries_llm_node_guarded(s, response) ==
    IF response.raised THEN Raised(s, "CompletionError")
    ELSE LET queries == ParseQueries(response.content) IN
         IF queries = <<>> \/ queries[1] = <<>>
         THEN Returned([s EXCEPT !.search_queries = <<>>])
         ELSE Returned([s EXCEPT !.search_queries = DropLeadingLine(queries)])

generate_queries_llm_node(s, response) ==
    IF response.raised THEN Raised(s, "CompletionError")
    ELSE LET queries == ParseQueries(response.content) IN
         IF queries = <<>> \/ queries[1] = <<>>
         THEN Raised(s, "IndexError")
         ELSE Returned([s EXCEPT !.search_queries = DropLeadingLine(queries)])

\* "1. foo\nbar\nbaz\n\nqux\nquux"
NumberedResponse ==
    <<"1", ".", " ", "f", "o", "o", "\n", "b", "a", "r", "\n", "b", "a", "z", "\n",
      "\n", "q", "u", "x", "\n", "q", "u", "u", "x">>

\* "\n \n"
BlankResponse == <<"\n", " ", "\n">>

\* "- \nfoo"
DashResponse == <<"-", " ", "\n", "f", "o", "o">>

QueryResponses ==
    { [raised |-> TRUE, content |-> <<>>],
      [raised |-> FALSE, content |-> <<>>],
      [raised |-> FALSE, content |-> BlankResponse],
      [raised |-> FALSE, content |-> DashResponse],
      [raised |-> FALSE, content |-> NumberedResponse] }

(***************************************************************************)
(* search_serper_node                                                      *)
(***************************************************************************)
\* what web_tool.func did: raised, or returned {"results": [...]}
SearchOutcomes ==
    {[raised |-> TRUE, results |-> <<>>]}
    \cup {[raised |-> FALSE, results |-> r] : r \in SeqsUpTo(ResultPool, MaxResults)}

\* faulty variant: a failed provider call gives an empty result
search_serper_node_swallowing(s, outcome) ==
    LET raw == IF outcome.raised THEN <<>> ELSE outcome.results IN
    Returned([s EXCEPT
                !.raw_search_results = raw,
                !.selected_urls = [i \in 1..Len(raw) |-> raw[i].url],
                !.current_step = "web_search_completed"])

search_serper_node(s, outcome) ==
    IF outcome.raised THEN Raised(s, "SearchError")
    ELSE LET raw == outcome.results IN
         Returned([s EXCEPT
                     !.raw_search_results = raw,
                     !.selected_urls = [i \in 1..Len(raw) |-> raw[i].url],
                     !.current_step = "web_search_completed"])

(***************************************************************************)
(* validate_sources_node                                                   *)
(***************************************************************************)
MinCredibilityThreshold == 300

LlmWeight == 400

CheckAccessibility == TRUE

\* In a whole run a 404 answer and a RequestException lead to the same
\* decisions: the run draws the exception only, a direct call of the tool
\* (CallSourceValidation) draws every outcome.
RunHeadOutcomes == {h \in HeadOutcomes : h.status_code # 404}

ValidationExts(search_results) ==
    [1..Len(search_results) -> [head : RunHeadOutcomes, llm : CredibilityResponses]]

\* faulty variant: selected_urls is not reset to the validated keys
validate_sources_node_keeps_urls(s, llm_init, exts) ==
    LET result == source_validation_function(s.raw_search_results, MinCredibilityThreshold,
                                             LlmWeight, CheckAccessibility, llm_init, exts)
    IN Returned([s EXCEPT
                   !.validated_sources = result.validated_sources,
                   !.source_credibility_scores = result.credibility_scores,
                   !.removed_sources = result.removed_sources,
                   !.credibility_average = result.credibility_average,
                   !.current_step = "source_validation_completed"])

validate_sources_node(s, llm_init, exts) ==
    LET result == source_validation_function(s.raw_search_results, MinCredibilityThreshold,
                                             LlmWeight, CheckAccessibility, llm_init, exts)
    IN Returned([s EXCEPT
                   !.validated_sources = result.validated_sources,
                   !.source_credibility_scores = result.credibility_scores,
                   !.removed_sources = result.removed_sources,
                   !.credibility_average = result.credibility_average,
                   !.selected_urls = DictKeys(result.validated_sources),
                   !.current_step = "source_validation_completed"])

(***************************************************************************)
(* extract_content_node.  The extraction tool                              *)
(* (tools/content_extraction_bs4_tool) is not among the sources: it is     *)
(* modelled from its contract, one entry per requested URL, an error entry *)
(* and a failed_extractions element for a URL whose fetch or parse failed. *)
(***************************************************************************)
PageTitle(url) == IF url = UrlNews THEN "News" ELSE "Blog"

PageWords(url) == IF url = UrlNews THEN 2500 ELSE 120

FetchOutcomes == {"ok", "error"}

ExtractOne(url, outcome) ==
    IF outcome = "ok"
    THEN [error |-> FALSE, title |-> PageTitle(url), word_count |-> PageWords(url)]
    ELSE [error |-> TRUE, title |-> "", word_count |-> 0]

RECURSIVE ExtractLoop(_, _, _, _)
ExtractLoop(acc, urls, fetches, i) ==
    IF i > Len(urls) THEN acc
    ELSE ExtractLoop(
             [extracted_content |->
                  DictPut(acc.extracted_content, urls[i], ExtractOne(urls[i], fetches[i])),
              failed_extractions |->
                  IF fetches[i] = "ok" THEN acc.failed_extractions
                  ELSE Append(acc.failed_extractions, urls[i])],
             urls, fetches, i + 1)

content_extraction_function(urls, fetches) ==
    LET acc == ExtractLoop([extracted_content |-> <<>>, failed_extractions |-> <<>>],
                           urls, fetches, 1)
        ok == SelectSeq(acc.extracted_content, LAMBDA e : ~e[2].error)
    IN [extracted_content |-> acc.extracted_content,
        failed_extractions |-> acc.failed_extractions,
        content_stats |->
            [total_urls |-> Len(urls),
             successful_extractions |-> Len(ok),
             failed_extractions |-> Len(acc.failed_extractions),
             total_word_count |-> SeqSum([i \in 1..Len(ok) |-> ok[i][2].word_count])]]

\* faulty variant: every search result is extracted, validated or not
ExtractionUrlsFromRaw(s) ==
    [i \in 1..Len(s.raw_search_results) |-> s.raw_search_results[i].url]

\* the urls=... argument of the tool call
ExtractionUrls(s) == s.selected_urls

\* faulty variant: a failed fetch is thrown out of the stage
extract_content_node_aborting(s, fetches) ==
    IF s.selected_urls = <<>>
    THEN Returned([s EXCEPT !.current_step = "content_extraction_skipped"])
    ELSE IF \E i \in DOMAIN fetches : fetches[i] = "error"
    THEN Raised(s, "RequestException")
    ELSE LET result == content_extraction_function(ExtractionUrls(s), fetches) IN
         Returned([s EXCEPT
                     !.extracted_content = result.extracted_content,
                     !.content_stats = result.content_stats,
                     !.failed_extractions = result.failed_extractions,
                     !.current_step = "content_extraction_completed"])

extract_content_node(s, fetches) ==
    IF s.selected_urls = <<>>
    THEN Returned([s EXCEPT !.current_step = "content_extraction_skipped"])
    ELSE LET result == content_extraction_function(ExtractionUrls(s), fetches) IN
         Returned([s EXCEPT
                     !.extracted_content = result.extracted_content,
                     !.content_stats = result.content_stats,
                     !.failed_extractions = result.failed_extractions,
                     !.current_step = "content_extraction_completed"])

(***************************************************************************)
(* analysis_synthesis_function and analysis_synthesis_node                 *)
(***************************************************************************)
\* url.split('/')[2] if '//' in url else url: the labels of the host, or
\* the whole text as one label for a key without '//'
SourceDomain(url) == IF url \in {UrlNews, UrlNewsB, UrlBlog} THEN Netloc(url) ELSE <<url>>

preprocess_content(content_dict) ==
    LET ok == SelectSeq(content_dict, LAMBDA e : ~e[2].error)
        sources == [i \in 1..Len(ok) |->
                       [url |-> ok[i][1], title |-> ok[i][2].title,
                        word_count |-> ok[i][2].word_count,
                        domain |-> SourceDomain(ok[i][1])]]
    IN [sources |-> sources,
        total_word_count |-> SeqSum([i \in 1..Len(sources) |-> sources[i].word_count]),
        total_sources |-> Len(content_dict),
        successful_sources |-> Len(sources)]

Finding(confidence) == [finding |-> "finding", confidence |-> confidence]

\* a finding whose "finding" is null in the JSON the model returned
FindingWithoutText(confidence) == [finding |-> NoneValue, confidence |-> confidence]

FindingsLists == { <<Finding(5)>>, <<Finding(5), Finding(3)>>, <<FindingWithoutText(4)>> }

\* What the five completion calls did.  ok = FALSE: the call raised or its
\* text was no JSON; value: the parsed list (for the summary, the text).
AnalysisOutcomes ==
    [ llm_init : {TRUE},
      key_findings : {[ok |-> FALSE, value |-> <<>>]}
                     \cup {[ok |-> TRUE, value |-> f] : f \in FindingsLists},
      contradictions : {[ok |-> FALSE, value |-> <<>>],
                        [ok |-> TRUE, value |-> <<"contradiction">>]},
      consensus_points : {[ok |-> FALSE, value |-> <<>>],
                          [ok |-> TRUE, value |-> <<"consensus">>]},
      research_gaps : {[ok |-> FALSE, value |-> <<>>], [ok |-> TRUE, value |-> <<"gap">>]},
      executive_summary : {[ok |-> FALSE, value |-> ""], [ok |-> TRUE, value |-> "summary"]} ]
    \cup
    { [ llm_init |-> FALSE,
        key_findings |-> [ok |-> FALSE, value |-> <<>>],
        contradictions |-> [ok |-> FALSE, value |-> <<>>],
        consensus_points |-> [ok |-> FALSE, value |-> <<>>],
        research_gaps |-> [ok |-> FALSE, value |-> <<>>],
        executive_summary |-> [ok |-> FALSE, value |-> ""] ] }

\* Each derivation hands back its value and, in calls, the llm.invoke calls it
\* issued (a call that raised is issued all the same).
extract_key_findings(llm) ==
    [value |-> IF llm.key_findings.ok THEN llm.key_findings.value ELSE <<>>,
     calls |-> <<"key_findings">>]

\* faulty variant: the model is asked whatever the flag and the sources are
identify_contradictions_always_asks(processed_content, include_contradictions, llm) ==
    [value |-> IF llm.contradictions.ok THEN llm.contradictions.value ELSE <<>>,
     calls |-> <<"contradictions">>]

identify_contradictions(processed_content, include_contradictions, llm) ==
    IF ~include_contradictions \/ Len(processed_content.sources) < 2
    THEN [value |-> <<>>, calls |-> <<>>]
    ELSE [value |-> IF llm.contradictions.ok THEN llm.contradictions.value ELSE <<>>,
          calls |-> <<"contradictions">>]

\* faulty variant: without findings the consensus is not asked for
identify_consensus_points_after_findings(llm) ==
    IF llm.key_findings.ok
    THEN [value |-> IF llm.consensus_points.ok THEN llm.consensus_points.value ELSE <<>>,
          calls |-> <<"consensus_points">>]
    ELSE [value |-> <<>>, calls |-> <<>>]

identify_consensus_points(llm) ==
    [value |-> IF llm.consensus_points.ok THEN llm.consensus_points.value ELSE <<>>,
     calls |-> <<"consensus_points">>]

identify_research_gaps(include_gaps, llm) ==
    IF ~include_gaps THEN [value |-> <<>>, calls |-> <<>>]
    ELSE [value |-> IF llm.research_gaps.ok THEN llm.research_gaps.value ELSE <<>>,
          calls |-> <<"research_gaps">>]

generate_executive_summary(llm) ==
    [value |-> IF llm.executive_summary.ok THEN llm.executive_summary.value
               ELSE "Executive summary generation failed",
     calls |-> <<"executive_summary">>]

calculate_quality_metrics(processed_content, findings) ==
    LET domains == {processed_content.sources[i].domain :
                        i \in 1..Len(processed_content.sources)}
        successful == processed_content.successful_sources
        depth_score == FracMin1(Frac(processed_content.total_word_count,
                                     Max(successful, 1) * 1000))
        findings_score == FracMin1(Frac(Len(findings), 10))
        high_confidence == SelectSeq(findings, LAMBDA f : f.confidence >= 4)
    IN [source_diversity_score |->
            IF successful > 0 THEN FracMin1(Frac(Cardinality(domains), successful))
            ELSE FracZero,
        information_depth_score |-> FracMean2(depth_score, findings_score),
        credibility_average |->
            IF findings # <<>> THEN Frac(Len(high_confidence), Len(findings))
            ELSE FracZero,
        coverage_completeness |->
            IF processed_content.total_sources > 0
            THEN Frac(successful, processed_content.total_sources)
            ELSE FracZero]

\* The record json.loads gives back; calls lists the completion calls issued.
analysis_synthesis_function(extracted_content, include_contradictions, include_gaps, llm) ==
    LET processed_content == preprocess_content(extracted_content)
        key_findings == extract_key_findings(llm)
        contradictions ==
            identify_contradictions(processed_content, include_contradictions, llm)
        consensus_points == identify_consensus_points(llm)
        research_gaps == identify_research_gaps(include_gaps, llm)
        executive_summary == generate_executive_summary(llm)
    IN IF processed_content.successful_sources = 0
       THEN [error |-> TRUE, calls |-> <<>>,
             key_findings |-> <<>>, contradictions |-> <<>>,
             consensus_points |-> <<>>, research_gaps |-> <<>>, executive_summary |-> "",
             quality_metrics |-> [source_diversity_score |-> FracZero,
                                  information_depth_score |-> FracZero,
                                  credibility_average |-> FracZero,
                                  coverage_completeness |-> FracZero]]
       ELSE [error |-> FALSE,
             calls |-> key_findings.calls \o contradictions.calls \o consensus_points.calls
                       \o research_gaps.calls \o executive_summary.calls,
             key_findings |-> key_findings.value,
             contradictions |-> contradictions.value,
             consensus_points |-> consensus_points.value,
             research_gaps |-> research_gaps.value,
             executive_summary |-> executive_summary.value,
             quality_metrics |->
                 calculate_quality_metrics(processed_content, key_findings.value)]

\* faulty variant: the stage stops without recording an error
AnalysisStoppedSilently(s, current_step, error_msg) ==
    [s EXCEPT !.current_step = current_step]

\* state.current_step = ...; state.errors.append(...); return state
AnalysisStopped(s, current_step, error_msg) ==
    [s EXCEPT !.current_step = current_step, !.errors = Append(@, error_msg)]

\* the prints after the results were written: len(finding.get('finding', ''))
\* raises TypeError for one of the first three findings whose text is None
LoggingRaises(key_findings) ==
    \E i \in 1..Min(3, Len(key_findings)) : key_findings[i].finding = NoneValue

analysis_synthesis_node(s, llm) ==
    IF s.extracted_content = <<>>
    THEN Returned(AnalysisStopped(s, "analysis_synthesis_skipped",
                                  "No extracted content available for analysis"))
    ELSE IF SelectSeq(s.extracted_content, LAMBDA e : ~e[2].error) = <<>>
    THEN Returned(AnalysisStopped(s, "analysis_synthesis_failed",
                                  "No successful content extractions available for analysis"))
    ELSE IF ~llm.llm_init
    THEN Returned([s EXCEPT
                     !.current_step = "analysis_synthesis_failed",
                     !.errors = Append(@, "Analysis and synthesis failed")])
    ELSE LET result == analysis_synthesis_function(s.extracted_content, TRUE, TRUE, llm) IN
         IF result.error
         THEN Returned([s EXCEPT
                          !.current_step = "analysis_synthesis_failed",
                          !.errors = Append(@, "Analysis failed")])
         ELSE LET written == [s EXCEPT
                          !.key_findings = result.key_findings,
                          !.contradictions = result.contradictions,
                          !.consensus_points = result.consensus_points,
                          !.research_gaps = result.research_gaps,
                          !.executive_summary = result.executive_summary,
                          !.source_diversity_score =
                              result.quality_metrics.source_diversity_score,
                          !.information_depth_score =
                              result.quality_metrics.information_depth_score,
                          !.credibility_average = result.quality_metrics.credibility_average,
                          !.coverage_completeness =
                              result.quality_metrics.coverage_completeness,
                          !.current_step = "analysis_synthesis_completed"]
              IN IF LoggingRaises(written.key_findings)
                 THEN ReturnedAfter(AnalysisStopped(written, "analysis_synthesis_failed",
                                                    "Analysis and synthesis failed"),
                                    result.calls)
                 ELSE ReturnedAfter(written, result.calls)

(***************************************************************************)
(* report_generation_function, report_generation_node and its helpers.     *)
(* A report text is the sequence of its sections; "" is the empty sequence.*)
(***************************************************************************)
\* the keys and titles of the mappings given to the report node directly:
\* keys without '//', as in {"u1": {"title": "T", ...}}
BasicUrls == <<"u1", "u2", "u3", "u4", "u5", "u6", "u7">>

BasicTitles == <<"T", "T2", "T3", "T4", "T5", "T6", "T7">>

\* ord(c) for the characters of a text of the universe
CodePoints(t) ==
    CASE t = "" -> <<>>
      [] t = "Blog" -> <<66, 108, 111, 103>>
      [] t = "News" -> <<78, 101, 119, 115>>
      [] t = "apple" -> <<97, 112, 112, 108, 101>>
      [] t = "www" -> <<119, 119, 119>>
      [] t = "bbc" -> <<98, 98, 99>>
      [] t = "com" -> <<99, 111, 109>>
      [] t = "blog" -> <<98, 108, 111, 103>>
      [] t = "example" -> <<101, 120, 97, 109, 112, 108, 101>>
      [] t = "io" -> <<105, 111>>
      [] t = "T" -> <<84>>
      [] \E i \in 2..7 : t = BasicTitles[i] ->
             <<84, 48 + (CHOOSE i \in 2..7 : t = BasicTitles[i])>>
      [] \E i \in 1..7 : t = BasicUrls[i] ->
             <<117, 48 + (CHOOSE i \in 1..7 : t = BasicUrls[i])>>

\* the characters of a domain: its labels with '.' between them
RECURSIVE DomainText(_)
DomainText(domain) ==
    IF domain = <<>> THEN <<>>
    ELSE IF Len(domain) = 1 THEN CodePoints(domain[1])
    ELSE CodePoints(domain[1]) \o <<46>> \o DomainText(Tail(domain))

\* a < b for two str, given as their characters
TextLess(a, b) ==
    \E i \in 1..(Min(Len(a), Len(b)) + 1) :
        /\ \A j \in 1..(i - 1) : a[j] = b[j]
        /\ IF i > Len(a) THEN i <= Len(b)
           ELSE i <= Len(b) /\ a[i] < b[i]

\* x sorts before y under key=lambda x: (x['domain'], x['title'])
CitationBefore(x, y) ==
    \/ TextLess(DomainText(x.domain), DomainText(y.domain))
    \/ /\ DomainText(x.domain) = DomainText(y.domain)
       /\ TextLess(CodePoints(x.title), CodePoints(y.title))

\* list.sort is stable: x goes behind every element that is not after it
RECURSIVE InsertCitation(_, _)
InsertCitation(sorted, x) ==
    IF sorted = <<>> THEN <<x>>
    ELSE IF CitationBefore(x, Head(sorted)) THEN <<x>> \o sorted
    ELSE <<Head(sorted)>> \o InsertCitation(Tail(sorted), x)

\* faulty variant: the list is left in insertion order
SortCitationsSkipped(bibliography) == bibliography

RECURSIVE SortCitations(_)
SortCitations(bibliography) ==
    IF bibliography = <<>> THEN <<>>
    ELSE InsertCitation(SortCitations(SubSeq(bibliography, 1, Len(bibliography) - 1)),
                        bibliography[Len(bibliography)])

create_bibliography(content_dict) ==
    LET ok == SelectSeq(content_dict, LAMBDA e : ~e[2].error)
    IN SortCitations([i \in 1..Len(ok) |->
                         [title |-> ok[i][2].title, url |-> ok[i][1],
                          domain |-> SourceDomain(ok[i][1])]])

\* what the report tool's collaborators did
ReportOutcomes ==
    [llm_init : {TRUE}, report_ok : BOOLEAN, methodology_ok : BOOLEAN, write_ok : BOOLEAN]
    \cup {[llm_init |-> FALSE, report_ok |-> FALSE, methodology_ok |-> FALSE,
           write_ok |-> FALSE]}

generate_detailed_report(llm) ==
    [section |-> "report",
     text |-> IF llm.report_ok THEN "narrative" ELSE "Error generating detailed report"]

generate_methodology_section(include_methodology, llm) ==
    IF ~include_methodology THEN <<>>
    ELSE <<[section |-> "methodology",
            text |-> IF llm.methodology_ok THEN "methodology"
                     ELSE "Error generating methodology section"]>>

\* the f-string of the footer: the counts it prints (timestamp and topic
\* are the same in every run of the model)
metadata_footer(key_findings, research_gaps, extracted_content) ==
    [section |-> "footer",
     sources_analyzed |-> Len(SelectSeq(extracted_content, LAMBDA e : ~e[2].error)),
     sources_attempted |-> Len(extracted_content),
     key_findings |-> Len(key_findings),
     research_gaps |-> Len(research_gaps)]

generate_bibliography_section(include_bibliography, bibliography) ==
    IF ~include_bibliography \/ bibliography = <<>> THEN <<>>
    ELSE <<[section |-> "bibliography", citations |-> bibliography]>>

report_generation_function(key_findings, research_gaps, executive_summary, extracted_content, include_methodology, include_bibliography, llm) ==
    LET bibliography ==
            IF include_bibliography THEN create_bibliography(extracted_content) ELSE <<>>
        detailed_report == generate_detailed_report(llm)
        methodology_section ==
            IF include_methodology
            THEN generate_methodology_section(include_methodology, llm) ELSE <<>>
        bibliography_section ==
            generate_bibliography_section(include_bibliography, bibliography)
        full_report == <<detailed_report>> \o methodology_section \o bibliography_section
        \* one llm.invoke in generate_detailed_report, one in the methodology
        calls == <<"report">> \o (IF include_methodology THEN <<"methodology">> ELSE <<>>)
    IN [calls |-> calls,
        synthesized_report |-> full_report,
        detailed_analysis |-> <<detailed_report>>,
        executive_summary |-> executive_summary,
        source_bibliography |-> bibliography]

\* faulty variant: every entry counts as analyzed, every title is listed
generate_basic_report_of_all(s) ==
    <<[section |-> "basic",
       sources_analyzed |-> Len(s.extracted_content),
       sources_attempted |-> Len(s.extracted_content),
       titles |-> [i \in 1..Len(s.extracted_content) |-> s.extracted_content[i][2].title],
       key_findings |-> SubSeq(s.key_findings, 1, Min(5, Len(s.key_findings))),
       research_gaps |-> SubSeq(s.research_gaps, 1, Min(3, Len(s.research_gaps)))]>>

generate_basic_report(s) ==
    LET successful_sources == SelectSeq(s.extracted_content, LAMBDA e : ~e[2].error)
        shown == SubSeq(successful_sources, 1, Min(5, Len(successful_sources)))
    IN <<[section |-> "basic",
          sources_analyzed |-> Len(successful_sources),
          sources_attempted |-> Len(s.extracted_content),
          titles |-> [i \in 1..Len(shown) |-> shown[i][2].title],
          key_findings |-> SubSeq(s.key_findings, 1, Min(5, Len(s.key_findings))),
          research_gaps |-> SubSeq(s.research_gaps, 1, Min(3, Len(s.research_gaps)))]>>

\* faulty variant: the failure replaces the error list
save_report_md_overwriting(s, write_ok) ==
    IF s.synthesized_report = <<>> /\ s.detailed_analysis = <<>> THEN s
    ELSE IF write_ok THEN s
    ELSE [s EXCEPT !.errors = <<"Report save failed">>]

save_report_md(s, write_ok) ==
    LET report_content ==
            IF s.synthesized_report # <<>> THEN s.synthesized_report
            ELSE s.detailed_analysis
    IN IF report_content = <<>> THEN s
       ELSE IF write_ok THEN s
       ELSE [s EXCEPT !.errors = Append(@, "Report save failed")]

\* the basic report as fallback, when there is extracted content
WithBasicReport(s) ==
    IF s.extracted_content # <<>>
    THEN [s EXCEPT !.synthesized_report = generate_basic_report(s),
                   !.detailed_analysis = generate_basic_report(s)]
    ELSE s

report_generation_node(s, llm) ==
    IF s.key_findings = <<>> /\ s.consensus_points = <<>> /\ s.contradictions = <<>>
    THEN Returned(WithBasicReport(
             [s EXCEPT
                !.current_step = "report_generation_skipped",
                !.warnings = Append(@, "No analysis results available for report generation")]))
    ELSE IF ~llm.llm_init
    THEN Returned(WithBasicReport(
             [s EXCEPT !.current_step = "report_generation_failed",
                       !.errors = Append(@, "Report generation failed")]))
    ELSE LET result == report_generation_function(
                           s.key_findings, s.research_gaps, s.executive_summary,
                           s.extracted_content, TRUE, TRUE, llm)
         IN ReturnedAfter(save_report_md(
                [s EXCEPT
                   !.synthesized_report = result.synthesized_report,
                   !.detailed_analysis = result.detailed_analysis,
                   !.source_bibliography = result.source_bibliography,
                   !.executive_summary =
                       IF @ = "" THEN result.executive_summary ELSE @,
                   !.current_step = "report_generation_completed"],
                llm.write_ok), result.calls)

(***************************************************************************)
(* create_workflow and run_online_research: app.invoke runs the entry      *)
(* node, then follows the edges; an exception of a node ends the run, and  *)
(* run_online_research returns None.                                       *)
(***************************************************************************)
EntryPoint == "generate_queries"

\* faulty variant: the edge out of web_search leads past the validator
NextNodeSkipsValidation(node) ==
    CASE node = "generate_queries" -> "web_search"
      [] node = "web_search" -> "content_extraction"
      [] node = "validate_sources" -> "content_extraction"
      [] node = "content_extraction" -> "analysis_synthesis"
      [] node = "analysis_synthesis" -> "report_generation"
      [] node = "report_generation" -> "END"

\* faulty variant: a failed analysis goes back to the extractor
NextNodeRetriesExtraction(node) ==
    CASE node = "generate_queries" -> "web_search"
      [] node = "web_search" -> "validate_sources"
      [] node = "validate_sources" -> "content_extraction"
      [] node = "content_extraction" -> "analysis_synthesis"
      [] node = "analysis_synthesis" ->
             IF Len(executed) < 6 THEN "content_extraction" ELSE "report_generation"
      [] node = "report_generation" -> "END"

NextNode(node) ==
    CASE node = "generate_queries" -> "web_search"
      [] node = "web_search" -> "validate_sources"
      [] node = "validate_sources" -> "content_extraction"
      [] node = "content_extraction" -> "analysis_synthesis"
      [] node = "analysis_synthesis" -> "report_generation"
      [] node = "report_generation" -> "END"

NoCall == [fn |-> "none"]

\* what the run remembers for the properties: selected_urls as the validator
\* and the extractor found it, the state object as the last two nodes found it
NoSnapshot ==
    [before_validation |-> <<>>, before_extraction |-> <<>>,
     before_analysis |-> InitialState, before_report |-> InitialState]

\* stands for what the completion service did when a node issued no call
NotRun == [llm_init |-> FALSE]

\* the response the query model gave, the external call of the first two
\* nodes that raised, the exception that ended the run, what the completion
\* service did for the analysis and the report node and the completion calls
\* they issued, in order, and for each field of the state the nodes that
\* changed its value
NothingObserved ==
    [query_response |-> <<>>, failed_call |-> "", raised |-> "",
     analysis_llm |-> NotRun, analysis_calls |-> <<>>,
     report_llm |-> NotRun, report_calls |-> <<>>,
     writers |-> [f \in DOMAIN InitialState |-> {}]]

\* what the completion service did, for a node that issued a call to it
Asked(r, llm) == IF r.calls # <<>> THEN llm ELSE NotRun

\* the nodes that changed each field, after node turned before into after
Written(writers, node, before, after) ==
    [f \in DOMAIN writers |->
        IF before[f] # after[f] THEN writers[f] \cup {node} ELSE writers[f]]

Init ==
    /\ state = InitialState
    /\ pc = EntryPoint
    /\ executed = <<>>
    /\ snapshot = NoSnapshot
    /\ observed = NothingObserved
    /\ call = NoCall
    /\ ret = NoCall

\* one node of the graph has run: r is what it handed back
Step(node, r, seen) ==
    /\ state' = r.state
    /\ pc' = IF r.raised = "" THEN NextNode(node) ELSE "raised"
    /\ executed' = Append(executed, node)
    /\ observed' = [seen EXCEPT !.writers = Written(@, node, state, r.state),
                                !.raised = r.raised]
    /\ UNCHANGED <<call, ret>>

GenerateQueries ==
    /\ pc = "generate_queries"
    /\ \E response \in QueryResponses :
          Step("generate_queries", generate_queries_llm_node(state, response),
               [observed EXCEPT
                   !.query_response = response.content,
                   !.failed_call = IF response.raised THEN "llm.invoke" ELSE @])
    /\ UNCHANGED snapshot

WebSearch ==
    /\ pc = "web_search"
    /\ \E outcome \in SearchOutcomes :
          Step("web_search", search_serper_node(state, outcome),
               [observed EXCEPT
                   !.failed_call = IF outcome.raised THEN "web_tool.func" ELSE @])
    /\ UNCHANGED snapshot

ValidateSources ==
    /\ pc = "validate_sources"
    /\ \E llm_init \in BOOLEAN, exts \in ValidationExts(state.raw_search_results) :
          Step("validate_sources", validate_sources_node(state, llm_init, exts), observed)
    /\ snapshot' = [snapshot EXCEPT !.before_validation = state.selected_urls]

ContentExtraction ==
    /\ pc = "content_extraction"
    /\ \E fetches \in [1..Len(ExtractionUrls(state)) -> FetchOutcomes] :
          Step("content_extraction", extract_content_node(state, fetches), observed)
    /\ snapshot' = [snapshot EXCEPT !.before_extraction = state.selected_urls]

AnalysisSynthesis ==
    /\ pc = "analysis_synthesis"
    /\ \E llm \in AnalysisOutcomes :
          LET r == analysis_synthesis_node(state, llm) IN
          Step("analysis_synthesis", r,
               [observed EXCEPT !.analysis_llm = Asked(r, llm), !.analysis_calls = r.calls])
    /\ snapshot' = [snapshot EXCEPT !.before_analysis = state]

ReportGeneration ==
    /\ pc = "report_generation"
    /\ \E llm \in ReportOutcomes :
          LET r == report_generation_node(state, llm) IN
          Step("report_generation", r,
               [observed EXCEPT !.report_llm = Asked(r, llm), !.report_calls = r.calls])
    /\ snapshot' = [snapshot EXCEPT !.before_report = state]

Next ==
    \/ GenerateQueries
    \/ WebSearch
    \/ ValidateSources
    \/ ContentExtraction
    \/ AnalysisSynthesis
    \/ ReportGeneration

Spec == Init /\ [][Next]_vars

\* every external call returns or raises, and the graph runtime then runs
\* the node the edge leads to: a node that can run does run
FairSpec == Spec /\ WF_vars(Next)

\* the run is over: app.invoke returned or raised
RunOver == pc \in {"END", "raised"}

\* what run_online_research hands its caller: final_state, or None after
\* "except Exception"
run_online_research ==
    IF pc = "raised" THEN [is_none |-> TRUE, final_state |-> InitialState]
    ELSE [is_none |-> FALSE, final_state |-> state]

(***************************************************************************)
(* Direct calls of source_validation_function, with the reachability check *)
(* on and off: the arguments are drawn at the start, the call returns once.*)
(***************************************************************************)
ValidationCalls ==
    { [fn |-> "source_validation_function", search_results |-> r,
       min_credibility_threshold |-> MinCredibilityThreshold, llm_weight |-> LlmWeight,
       check_accessibility |-> c] :
      r \in SeqsUpTo(ResultPool, MaxResults), c \in BOOLEAN }

InitValidation ==
    /\ state = InitialState
    /\ pc = "direct_call"
    /\ executed = <<>>
    /\ snapshot = NoSnapshot
    /\ observed = NothingObserved
    /\ call \in ValidationCalls
    /\ ret = NoCall

CallSourceValidation ==
    /\ call.fn = "source_validation_function"
    /\ ret = NoCall
    /\ \E exts \in [1..Len(call.search_results) ->
                        [head : HeadOutcomes, llm : CredibilityResponses]] :
          ret' = [fn |-> call.fn, exts |-> exts,
                  result |-> source_validation_function(
                                 call.search_results, call.min_credibility_threshold,
                                 call.llm_weight, call.check_accessibility, TRUE, exts)]
    /\ UNCHANGED <<state, pc, executed, snapshot, observed, call>>

NextValidation == CallSourceValidation

SpecValidation == InitValidation /\ [][NextValidation]_vars

(***************************************************************************)
(* Direct calls of analysis_synthesis_function, with both feature flags on *)
(* and off, on extracted_content mappings of every shape.                  *)
(***************************************************************************)
\* the entries an extracted_content can hold: an error entry, or a page
ContentEntries ==
    { [error |-> TRUE, title |-> "", word_count |-> 0],
      [error |-> FALSE, title |-> "News", word_count |-> 2500],
      [error |-> FALSE, title |-> "Blog", word_count |-> 120],
      [error |-> FALSE, title |-> "apple", word_count |-> 100] }

ContentUrls == {UrlNews, UrlNewsB, UrlBlog}

\* the mappings of at most MaxContent URLs, in every insertion order
ContentDicts ==
    { d \in SeqsUpTo(ContentUrls \X ContentEntries, MaxContent) :
          Cardinality(DictKeySet(d)) = Len(d) }

AnalysisCalls ==
    { [fn |-> "analysis_synthesis_function", extracted_content |-> d,
       include_contradictions |-> c, include_gaps |-> g] :
      d \in ContentDicts, c \in BOOLEAN, g \in BOOLEAN }

InitAnalysis ==
    /\ state = InitialState
    /\ pc = "direct_call"
    /\ executed = <<>>
    /\ snapshot = NoSnapshot
    /\ observed = NothingObserved
    /\ call \in AnalysisCalls
    /\ ret = NoCall

\* AzureChatOpenAI(...) raising leaves the function before any derivation
CallAnalysisSynthesis ==
    /\ call.fn = "analysis_synthesis_function"
    /\ ret = NoCall
    /\ \E llm \in AnalysisOutcomes :
          ret' = [fn |-> call.fn, llm |-> llm, raised |-> ~llm.llm_init,
                  result |-> analysis_synthesis_function(
                                 call.extracted_content, call.include_contradictions,
                                 call.include_gaps, llm)]
    /\ UNCHANGED <<state, pc, executed, snapshot, observed, call>>

NextAnalysis == CallAnalysisSynthesis

SpecAnalysis == InitAnalysis /\ [][NextAnalysis]_vars

(***************************************************************************)
(* assess_content_quality applied to one result record.                    *)
(***************************************************************************)
\* records with the title lengths around the bands, with and without a
\* clickbait phrase in the title (a title of no character holds none), a
\* snippet of up to 50 characters or more, and a date or none
QualityResults ==
    { r \in { Result(UrlNews, title_len, clickbait, snippet_len, has_date) :
                  title_len \in {0, 5, 10, 19, 20, 120, 121, 199, 200},
                  clickbait \in BOOLEAN, snippet_len \in {0, 50, 51},
                  has_date \in BOOLEAN } :
          r.clickbait => r.title_len >= 7 }

InitQuality ==
    /\ state = InitialState
    /\ pc = "direct_call"
    /\ executed = <<>>
    /\ snapshot = NoSnapshot
    /\ observed = NothingObserved
    /\ call \in {[fn |-> "assess_content_quality", result |-> r] : r \in QualityResults}
    /\ ret = NoCall

CallAssessContentQuality ==
    /\ call.fn = "assess_content_quality"
    /\ ret = NoCall
    /\ ret' = [fn |-> call.fn, score |-> assess_content_quality(call.result)]
    /\ UNCHANGED <<state, pc, executed, snapshot, observed, call>>

NextQuality == CallAssessContentQuality

SpecQuality == InitQuality /\ [][NextQuality]_vars

(***************************************************************************)
(* report_generation_node called on its own, on a state that holds the     *)
(* extracted content and the results of an analysis.                       *)
(***************************************************************************)
BasicEntry(i, ok) ==
    <<BasicUrls[i],
      IF ok THEN [error |-> FALSE, title |-> BasicTitles[i], word_count |-> 100]
      ELSE [error |-> TRUE, title |-> "", word_count |-> 0]>>

\* the mappings {"u1": ..., "u2": ...} of at most MaxBasic entries, each
\* entry extracted or failed
BasicContents ==
    UNION { { [i \in 1..n |-> BasicEntry(i, ok[i])] : ok \in [1..n -> BOOLEAN] } :
            n \in 0..MaxBasic }

\* what an analysis can have left in the state
AnalysisResults ==
    { [key_findings |-> <<>>, contradictions |-> <<>>, consensus_points |-> <<>>,
       research_gaps |-> <<>>, executive_summary |-> ""],
      [key_findings |-> <<>>, contradictions |-> <<>>, consensus_points |-> <<>>,
       research_gaps |-> <<"gap">>,
       executive_summary |-> "Executive summary generation failed"],
      [key_findings |-> <<Finding(5), Finding(3)>>, contradictions |-> <<>>,
       consensus_points |-> <<>>, research_gaps |-> <<"gap">>,
       executive_summary |-> "summary"],
      [key_findings |-> <<>>, contradictions |-> <<>>,
       consensus_points |-> <<"consensus">>, research_gaps |-> <<>>,
       executive_summary |-> ""],
      [key_findings |-> <<>>, contradictions |-> <<"contradiction">>,
       consensus_points |-> <<>>, research_gaps |-> <<>>,
       executive_summary |-> "summary"] }

ReportCalls ==
    { [fn |-> "report_generation_node", extracted_content |-> d, analysis |-> a] :
      d \in ContentDicts \cup BasicContents, a \in AnalysisResults }

\* the state the node is called on
ReportState(c) ==
    [InitialState EXCEPT
        !.extracted_content = c.extracted_content,
        !.key_findings = c.analysis.key_findings,
        !.contradictions = c.analysis.contradictions,
        !.consensus_points = c.analysis.consensus_points,
        !.research_gaps = c.analysis.research_gaps,
        !.executive_summary = c.analysis.executive_summary,
        !.current_step = "analysis_synthesis_completed"]

InitReport ==
    /\ state = InitialState
    /\ pc = "direct_call"
    /\ executed = <<>>
    /\ snapshot = NoSnapshot
    /\ observed = NothingObserved
    /\ call \in ReportCalls
    /\ ret = NoCall

CallReportGeneration ==
    /\ call.fn = "report_generation_node"
    /\ ret = NoCall
    /\ \E llm \in ReportOutcomes :
          ret' = [fn |-> call.fn, llm |-> llm,
                  result |-> report_generation_node(ReportState(call), llm)]
    /\ UNCHANGED <<state, pc, executed, snapshot, observed, call>>

NextReport == CallReportGeneration

SpecReport == InitReport /\ [][NextReport]_vars

(***************************************************************************)
(* Properties of the pipeline                                              *)
(***************************************************************************)
StageOrder ==
    <<"generate_queries", "web_search", "validate_sources", "content_extraction",
      "analysis_synthesis", "report_generation">>

\* the stage has run and has returned (it is not the stage that raised)
Done(node) ==
    \E i \in 1..Len(executed) :
        executed[i] = node /\ (i < Len(executed) \/ pc # "raised")

\* place of a current_step marker in the stage sequence, -1 for an unknown one
StepRank(step) ==
    CASE step = "starting" -> 0
      [] step = "web_search_completed" -> 1
      [] step = "source_validation_completed" -> 2
      [] step \in {"content_extraction_completed", "content_extraction_skipped"} -> 3
      [] step \in {"analysis_synthesis_completed", "analysis_synthesis_skipped",
                   "analysis_synthesis_failed"} -> 4
      [] step \in {"report_generation_completed", "report_generation_skipped",
                   "report_generation_failed"} -> 5
      [] OTHER -> -1

\* C1: the stages that have run so far are always an initial part of the fixed
\* order, each at most once; the stage about to run is the successor of the
\* last one that returned; a finished run has run all six.
C1_StagesRunInFixedOrder ==
    /\ Len(executed) <= Len(StageOrder)
    /\ \A i \in 1..Len(executed) : executed[i] = StageOrder[i]
    /\ pc \notin {"END", "raised"} => pc = StageOrder[Len(executed) + 1]
    /\ pc = "END" => executed = StageOrder

C1_Witness_RunFinished == pc = "END" /\ Len(executed) = 6

\* C2: no step of a run lowers the place of current_step in the stage
\* sequence, whichever outcome the stage takes.
C2_CurrentStepOnlyAdvances ==
    [][StepRank(state'.current_step) >= StepRank(state.current_step)]_vars

C2_Witness_FailedOutcomes ==
    /\ pc = "END"
    /\ state.current_step = "report_generation_failed"
    /\ state.errors # <<>>

\* C3: once the validator has returned, every selected URL was already
\* selected when it started; duplicate and missing URLs included.
C3_ValidationOnlyRemovesUrls ==
    Done("validate_sources") =>
        Range(state.selected_urls) \subseteq Range(snapshot.before_validation)

C3_Witness_UrlRemoved ==
    /\ Done("validate_sources")
    /\ state.selected_urls # <<>>
    /\ NoneValue \in Range(snapshot.before_validation)
    /\ Range(state.selected_urls) # Range(snapshot.before_validation)

\* C4: when the validator has just returned, selected_urls lists the keys of
\* validated_sources, each once and nothing else, and source_credibility_scores
\* has the same keys.
C4_SelectedUrlsAreValidatedKeys ==
    pc = "content_extraction" =>
        /\ Range(state.selected_urls) = DictKeySet(state.validated_sources)
        /\ Len(state.selected_urls) = Cardinality(DictKeySet(state.validated_sources))
        /\ DictKeySet(state.source_credibility_scores)
               = DictKeySet(state.validated_sources)

C4_Witness_DuplicateCollapsed ==
    /\ pc = "content_extraction"
    /\ Len(state.raw_search_results) = 2
    /\ state.raw_search_results[1].url = state.raw_search_results[2].url
    /\ Len(state.selected_urls) = 1

\* the URLs present in the result records, in order, duplicates kept
PresentUrls(results) ==
    LET present == SelectSeq(results, LAMBDA r : r.url # NoneValue)
    IN [i \in 1..Len(present) |-> present[i].url]

\* C5: every element of selected_urls is the URL of a result record, and
\* right after the web search selected_urls is the list of the URLs present.
C5_SelectedUrlsAreResultUrls ==
    /\ Range(state.selected_urls) \subseteq Range(PresentUrls(state.raw_search_results))
    /\ pc = "validate_sources" =>
           state.selected_urls = PresentUrls(state.raw_search_results)

\* C6: after extraction every key of extracted_content and every failed URL
\* was selected when extraction started, and every failed URL has an error
\* entry.
C6_ExtractedFromSelected ==
    Done("content_extraction") =>
        /\ DictKeySet(state.extracted_content) \subseteq Range(snapshot.before_extraction)
        /\ Range(state.failed_extractions) \subseteq Range(snapshot.before_extraction)
        /\ \A u \in Range(state.failed_extractions) :
               /\ DictHas(state.extracted_content, u)
               /\ DictGet(state.extracted_content, u).error

C6_Witness_OneFailedOneExtracted ==
    /\ Done("content_extraction")
    /\ Len(state.failed_extractions) = 1
    /\ Len(state.extracted_content) = 2
    /\ Len(state.raw_search_results) = 2

QualityScores(s) ==
    <<s.source_diversity_score, s.information_depth_score,
      s.credibility_average, s.coverage_completeness>>

Successful(s) == SelectSeq(s.extracted_content, LAMBDA e : ~e[2].error)

AllZero(scores) == \A i \in 1..Len(scores) : FracIsZero(scores[i])

\* C7 as stated: the four scores lie in [0,1], and once validation accepted
\* nothing or extraction got nothing, each of them is 0.
C7_ZeroSourcesGiveZeroScores ==
    /\ \A i \in 1..4 : FracInUnit(QualityScores(state)[i])
    /\ (Done("validate_sources") /\ state.validated_sources = <<>>)
           => AllZero(QualityScores(state))
    /\ (Done("content_extraction") /\ Successful(state) = <<>>)
           => AllZero(QualityScores(state))

\* C7: the four scores are defined and lie in [0,1]; with nothing accepted all
\* four are 0; with nothing extracted, diversity, depth and coverage are 0
\* and credibility_average is the mean final score of the accepted sources.
C7_QualityScoresInUnit ==
    /\ \A i \in 1..4 :
           QualityScores(state)[i].den > 0 /\ FracInUnit(QualityScores(state)[i])
    /\ (Done("validate_sources") /\ state.validated_sources = <<>>)
           => AllZero(QualityScores(state))
    /\ (Done("content_extraction") /\ Successful(state) = <<>>) =>
           /\ FracIsZero(state.source_diversity_score)
           /\ FracIsZero(state.information_depth_score)
           /\ FracIsZero(state.coverage_completeness)
           /\ LET scores == state.source_credibility_scores
                  total == SeqSum([i \in 1..Len(scores) |-> scores[i][2]])
              IN IF scores = <<>> THEN FracIsZero(state.credibility_average)
                 ELSE state.credibility_average
                          = Frac(total, Len(scores) * FinalScale)

C7_Witness_AcceptedButNothingExtracted ==
    /\ pc = "END"
    /\ Len(state.validated_sources) = 2
    /\ Successful(state) = <<>>
    /\ ~FracIsZero(state.credibility_average)

\* C15: when the analysis stage starts with no successful extraction it
\* issues no model call, appends exactly one error, marks itself skipped or
\* failed, leaves the four result lists empty and the summary as it was.
C15_AnalysisWithoutSources ==
    (pc = "report_generation" /\ Successful(snapshot.before_analysis) = <<>>) =>
        LET before == snapshot.before_analysis IN
        /\ observed.analysis_calls = <<>>
        /\ state.errors \in {Append(before.errors, e) : e \in Range(state.errors)}
        /\ Len(state.errors) = Len(before.errors) + 1
        /\ state.current_step \in {"analysis_synthesis_skipped", "analysis_synthesis_failed"}
        /\ state.key_findings = <<>>
        /\ state.contradictions = <<>>
        /\ state.consensus_points = <<>>
        /\ state.research_gaps = <<>>
        /\ state.executive_summary = before.executive_summary

C15_Witness_OnlyErrorEntries ==
    /\ pc = "report_generation"
    /\ Len(snapshot.before_analysis.extracted_content) = 2
    /\ Successful(snapshot.before_analysis) = <<>>
    /\ state.current_step = "analysis_synthesis_failed"

\* the value of a derivation whose call did this: the parsed answer, or the
\* empty default when the call failed or its text could not be parsed
AnswerOr(outcome, default) == IF outcome.ok THEN outcome.value ELSE default

\* C16: when the analysis tool runs, each derivation whose model call failed
\* or was unparseable has its default result (the empty list; for the summary
\* the fixed failure text) and every other one has its own result; all
\* derivations were attempted in order, the quality metrics were computed and
\* the stage ended as completed.
C16_FailedDerivationYieldsDefault ==
    (pc = "report_generation" /\ observed.analysis_llm # NotRun) =>
        LET llm == observed.analysis_llm
            n == Len(Successful(snapshot.before_analysis))
        IN /\ observed.analysis_calls
                  = <<"key_findings">>
                    \o (IF n >= 2 THEN <<"contradictions">> ELSE <<>>)
                    \o <<"consensus_points", "research_gaps", "executive_summary">>
           /\ state.key_findings = AnswerOr(llm.key_findings, <<>>)
           /\ n >= 2 => state.contradictions = AnswerOr(llm.contradictions, <<>>)
           /\ state.consensus_points = AnswerOr(llm.consensus_points, <<>>)
           /\ state.research_gaps = AnswerOr(llm.research_gaps, <<>>)
           /\ state.executive_summary
                  = AnswerOr(llm.executive_summary, "Executive summary generation failed")
           /\ state.coverage_completeness
                  = Frac(n, Len(snapshot.before_analysis.extracted_content))
           /\ state.current_step = "analysis_synthesis_completed"

C16_Witness_TwoDerivationsFailed ==
    /\ pc = "report_generation"
    /\ observed.analysis_llm # NotRun
    /\ ~observed.analysis_llm.key_findings.ok
    /\ ~observed.analysis_llm.executive_summary.ok
    /\ state.key_findings = <<>>
    /\ state.consensus_points # <<>>
    /\ state.research_gaps # <<>>
    /\ Len(observed.analysis_calls) = 5

\* C17: the extraction stage always returns; given URLs it ends as completed
\* with an entry for every URL, and exactly the URLs whose entry is an error
\* entry are in failed_extractions, the other entries holding their page.
C17_ExtractionAlwaysCompletes ==
    /\ \A i \in 1..Len(executed) :
           executed[i] = "content_extraction" => Done("content_extraction")
    /\ (pc = "analysis_synthesis" /\ snapshot.before_extraction # <<>>) =>
           /\ state.current_step = "content_extraction_completed"
           /\ DictKeySet(state.extracted_content) = Range(snapshot.before_extraction)
           /\ \A u \in DictKeySet(state.extracted_content) :
                  LET entry == DictGet(state.extracted_content, u) IN
                  /\ entry.error <=> u \in Range(state.failed_extractions)
                  /\ ~entry.error => entry.title # "" /\ entry.word_count > 0

C17_Witness_OneUrlFailed ==
    /\ pc = "analysis_synthesis"
    /\ Len(snapshot.before_extraction) = 2
    /\ Len(state.failed_extractions) = 1
    /\ Len(Successful(state)) = 1
    /\ state.current_step = "content_extraction_completed"

\* C18: apart from current_step, errors and warnings, no field of the state
\* has its value changed by more than one stage of a run.
C18_OneWriterPerField ==
    \A f \in DOMAIN observed.writers \ {"current_step", "errors", "warnings"} :
        Cardinality(observed.writers[f]) <= 1

\* C21: every run hands the caller a state, also when a stage failed
\* part-way, and whenever extracted content exists at the end of the run the
\* returned state carries a report that is not empty.
C21_CallerAlwaysGetsState ==
    RunOver =>
        /\ ~run_online_research.is_none
        /\ state.extracted_content # <<>> =>
               run_online_research.final_state.synthesized_report # <<>>

\* a stage recorded an error, marked itself and handed over to the next one
SkippedWithError(steps, next) ==
    /\ Len(state'.errors) = Len(state.errors) + 1
    /\ state'.current_step \in steps
    /\ pc' = next

\* C23: a stage that finds its upstream data missing (the extractor without
\* selected URLs, the analysis without extracted content, the report
\* generator without analysis results) appends an entry to the error list,
\* marks itself skipped or failed, and the run goes on with the next stage.
C23_MissingInputIsRecordedError ==
    [][/\ (pc = "content_extraction" /\ state.selected_urls = <<>>) =>
              SkippedWithError({"content_extraction_skipped", "content_extraction_failed"},
                               "analysis_synthesis")
       /\ (pc = "analysis_synthesis" /\ state.extracted_content = <<>>) =>
              SkippedWithError({"analysis_synthesis_skipped", "analysis_synthesis_failed"},
                               "report_generation")
       /\ (pc = "report_generation" /\ state.key_findings = <<>>
               /\ state.consensus_points = <<>> /\ state.contradictions = <<>>) =>
              SkippedWithError({"report_generation_skipped", "report_generation_failed"},
                               "END")]_vars

\* C24: a completion call of the Query Generator or a provider call of the
\* Web Search stage that raises is not caught: the run ends with the
\* exception after that one attempt, the stage has written none of its
\* output fields, and no later stage has run.
C24_FailedCallPropagates ==
    /\ observed.failed_call = "llm.invoke" =>
           /\ pc = "raised"
           /\ observed.raised # ""
           /\ executed = <<"generate_queries">>
           /\ state = InitialState
    /\ observed.failed_call = "web_tool.func" =>
           /\ pc = "raised"
           /\ observed.raised # ""
           /\ executed = <<"generate_queries", "web_search">>
           /\ state = [InitialState EXCEPT !.search_queries = state.search_queries]

C24_Witness_SearchRaised ==
    /\ observed.failed_call = "web_tool.func"
    /\ pc = "raised"
    /\ state.search_queries # <<>>
    /\ state.current_step = "starting"

\* the characters of the response's first line that is not blank, without
\* the leading and trailing '-' and ' '  (<<>> when every line is blank)
FirstUsableLine(queries_text) ==
    LET lines == SelectSeq(SplitLines(queries_text),
                           LAMBDA q : \E i \in 1..Len(q) : q[i] \notin Whitespace)
    IN IF lines = <<>> THEN <<>> ELSE Strip(lines[1], {"-", " "})

\* C25: when the response to the Query Generator has no usable line (empty,
\* only blank lines, or a first line that is empty once '-' and ' ' are
\* stripped), the node raises IndexError on the first character of the
\* first parsed line; it writes no empty query list, and search_queries is
\* as it was.
C25_NoUsableLineRaises ==
    (executed # <<>> /\ observed.failed_call # "llm.invoke"
                     /\ FirstUsableLine(observed.query_response) = <<>>) =>
        /\ pc = "raised"
        /\ observed.raised = "IndexError"
        /\ executed = <<"generate_queries">>
        /\ state.search_queries = InitialState.search_queries

C25_Witness_DashLineRaised ==
    /\ observed.query_response = DashResponse
    /\ observed.raised = "IndexError"
    /\ pc = "raised"

\* list after is list before with entries added at its end
ExtendsList(after, before) ==
    Len(before) <= Len(after) /\ SubSeq(after, 1, Len(before)) = before

\* C28: the error list and the warning list are append-only: every stage
\* leaves the entries already present as they are, in their order, and only
\* adds entries at the end.
C28_ErrorsAndWarningsAppendOnly ==
    [][/\ ExtendsList(state'.errors, state.errors)
       /\ ExtendsList(state'.warnings, state.warnings)]_vars

C28_Witness_SecondErrorAppended ==
    /\ pc = "END"
    /\ Len(state.errors) = 2
    /\ state.errors[1] = "Analysis and synthesis failed"
    /\ state.errors[2] = "Report save failed"

\* C30: every run terminates; a run in which no stage raised ends with
\* current_step one of report_generation_completed, _skipped, _failed, and
\* with report_generation_completed only if the analysis stage had ended
\* with analysis_synthesis_completed.
C30_RunsEndAfterReport ==
    /\ <>RunOver
    /\ [](pc = "END" =>
            /\ state.current_step \in {"report_generation_completed",
                                       "report_generation_skipped",
                                       "report_generation_failed"}
            /\ state.current_step = "report_generation_completed" =>
                   snapshot.before_report.current_step = "analysis_synthesis_completed")

(***************************************************************************)
(* Properties of source_validation_function called on its own              *)
(***************************************************************************)
ValidationReturned == ret # NoCall /\ ret.fn = "source_validation_function"

\* what the acceptance rule says of search_results[i], from the inputs of the
\* call, the outcome of the HEAD request and the final score of the pass
RuleAccepts(i) ==
    /\ ret.result.decisions[i].final_score
           >= call.min_credibility_threshold * (FinalScale \div Milli)
    /\ \/ ~call.check_accessibility
       \/ (~ret.exts[i].head.raised /\ ret.exts[i].head.status_code = 200)

\* C8: a result with a URL goes to validated_sources exactly when its final
\* score reaches the threshold and the reachability check is off or found the
\* URL reachable; otherwise it goes to removed_sources.
C8_AcceptanceRule ==
    ValidationReturned =>
        LET res == ret.result
            n == Len(call.search_results)
            withUrl == {i \in 1..n : call.search_results[i].url # NoneValue}
            rejected == SelectSeq(res.decisions, LAMBDA d : d.decision # "validated")
        IN /\ Len(res.decisions) = n
           /\ \A i \in withUrl :
                  /\ res.decisions[i].url = call.search_results[i].url
                  /\ res.decisions[i].decision = "validated" <=> RuleAccepts(i)
                  /\ res.decisions[i].decision = "removed" <=> ~RuleAccepts(i)
           /\ DictKeySet(res.validated_sources)
                  = {call.search_results[i].url :
                         i \in {j \in withUrl : RuleAccepts(j)}}
           /\ [j \in 1..Len(res.removed_sources) |-> res.removed_sources[j].url]
                  = [j \in 1..Len(rejected) |-> rejected[j].url]

C8_Witness_ThresholdAndCheckOff ==
    /\ ValidationReturned
    /\ ~call.check_accessibility
    /\ Len(call.search_results) = 2
    /\ ret.exts[1].head.raised
    /\ ret.result.decisions[1].decision = "validated"
    /\ ret.result.decisions[1].final_score
           = call.min_credibility_threshold * (FinalScale \div Milli)
    /\ ret.result.decisions[2].decision = "removed"

\* C9: every stored final score is rule_based*(1-llm_weight) +
\* llm_score*llm_weight with rule_based the mean of domain and content score;
\* a result with domain score 0.9, content score 0.5 and model score 0.5
\* under weight 0.4 scores 0.62 (0.6 times the rule-based 0.7, plus 0.2), and
\* with threshold 0.3 and an accessible URL it is accepted.
C9_CompositeScore ==
    ValidationReturned =>
        LET res == ret.result IN
        /\ \A k \in 1..Len(res.validated_sources) :
               LET u == res.validated_sources[k][1]
                   v == res.validated_sources[k][2]
               IN /\ 1000 * v.final_score
                         = 2 * (500 * v.domain_score + 500 * v.content_score)
                               * (1000 - call.llm_weight)
                           + 2 * 1000 * v.llm_score * call.llm_weight
                  /\ DictGet(res.credibility_scores, u) = v.final_score
                  /\ (v.domain_score = 900 /\ v.content_score = 500 /\ v.llm_score = 500)
                         => v.final_score = 1240000
        /\ \A i \in 1..Len(call.search_results) :
               (/\ call.search_results[i] = ResultNews
                /\ (ret.exts[i].llm.raised \/ ret.exts[i].llm.content = <<"N", "/", "A">>))
               => /\ res.decisions[i].final_score = 1240000
                  /\ res.decisions[i].final_score - (2 * 500 * 400) = 2 * 700 * 600
                  /\ res.decisions[i].accessible =>
                         res.decisions[i].decision = "validated"

C9_Witness_StoredWithExactScore ==
    /\ ValidationReturned
    /\ call.check_accessibility
    /\ DictHas(ret.result.validated_sources, UrlNews)
    /\ LET v == DictGet(ret.result.validated_sources, UrlNews)
       IN v.domain_score = 900 /\ v.content_score = 500 /\ v.llm_score = 500
          /\ v.final_score = 1240000

\* C10: for the response "1. foo", "bar", "baz", "", "qux", "quux" the first
\* line, which starts with a digit, is discarded and the other surviving
\* lines are the queries.
C10_NumberedFirstLineDiscarded ==
    (Done("generate_queries") /\ observed.query_response = NumberedResponse) =>
        state.search_queries
            = << <<"b", "a", "r">>, <<"b", "a", "z">>, <<"q", "u", "x">>,
                 <<"q", "u", "u", "x">> >>

(***************************************************************************)
(* Properties of analysis_synthesis_function called on its own             *)
(***************************************************************************)
AnalysisReturned ==
    ret # NoCall /\ ret.fn = "analysis_synthesis_function" /\ ~ret.raised

\* the entries of the call's extracted_content without an error marker
SuccessfulGiven == SelectSeq(call.extracted_content, LAMBDA e : ~e[2].error)

\* C11: with fewer than 2 successfully extracted sources, or with
\* contradiction detection off, the contradictions are the empty list and no
\* completion call was issued for them.
C11_ContradictionsSkipped ==
    AnalysisReturned =>
        ((Len(SuccessfulGiven) < 2 \/ ~call.include_contradictions) =>
             /\ ret.result.contradictions = <<>>
             /\ "contradictions" \notin Range(ret.result.calls))

C11_Witness_SingleSourceNotAsked ==
    /\ AnalysisReturned
    /\ call.include_contradictions
    /\ Len(SuccessfulGiven) = 1
    /\ Len(call.extracted_content) = 2
    /\ ret.llm.contradictions.ok
    /\ ret.result.contradictions = <<>>
    /\ ret.result.calls # <<>>

(***************************************************************************)
(* Properties of report_generation_node called on its own                  *)
(***************************************************************************)
ReportReturned == ret # NoCall /\ ret.fn = "report_generation_node"

\* the state the node was given, and the state it returned
ReportGiven == ReportState(call)

ReportLeft == ret.result.state

NoAnalysisGiven ==
    /\ ReportGiven.key_findings = <<>>
    /\ ReportGiven.consensus_points = <<>>
    /\ ReportGiven.contradictions = <<>>

\* the full path failed: the tool raised, or the report completion raised
FullPathFailed ==
    ReportReturned /\ ~NoAnalysisGiven /\ (~ret.llm.llm_init \/ ~ret.llm.report_ok)

FullPathReturned == ReportReturned /\ ~NoAnalysisGiven /\ ret.llm.llm_init

\* the entries of the given extracted_content without an error marker
ReportSuccessful == SelectSeq(ReportGiven.extracted_content, LAMBDA e : ~e[2].error)

\* a report that is the basic report over the given extracted_content
IsBasicReport(report) ==
    /\ Len(report) = 1
    /\ report[1].section = "basic"
    /\ report[1].sources_attempted = Len(ReportGiven.extracted_content)
    /\ report[1].sources_analyzed = Len(ReportSuccessful)

\* C12: started with key findings, consensus points and contradictions all
\* empty, the node makes no model call and the report in the state is the
\* basic report built from the extracted content, whatever that content is
\* (an empty mapping and one with only error entries included).
C12_NoAnalysisGivesBasicReport ==
    (ReportReturned /\ NoAnalysisGiven) =>
        /\ ret.result.calls = <<>>
        /\ IsBasicReport(ReportLeft.synthesized_report)
        /\ IsBasicReport(ReportLeft.detailed_analysis)

\* C13: whenever the full path fails, synthesized_report and
\* detailed_analysis hold the basic fallback report, not an error text and
\* not an empty report.
C13_FailedFullPathGivesBasicReport ==
    FullPathFailed =>
        /\ IsBasicReport(ReportLeft.synthesized_report)
        /\ IsBasicReport(ReportLeft.detailed_analysis)

\* C14: the basic report gives the number of entries without an error
\* marker as sources analyzed, the number of entries as sources attempted,
\* and the titles of the first five successful sources; for the single
\* successful entry u1 with title T and no analysis it is non-empty,
\* contains "T" and reports 1 source analyzed of 1 attempted.
C14_BasicReportCountsAndTitles ==
    (ReportReturned /\ ReportLeft.synthesized_report # <<>>
                    /\ ReportLeft.synthesized_report[1].section = "basic") =>
        LET basic == ReportLeft.synthesized_report[1]
            shown == Min(5, Len(ReportSuccessful))
        IN /\ basic.sources_analyzed =
                  Cardinality({i \in 1..Len(ReportGiven.extracted_content) :
                                  ~ReportGiven.extracted_content[i][2].error})
           /\ basic.sources_attempted = Len(ReportGiven.extracted_content)
           /\ Len(basic.titles) = shown
           /\ \A k \in 1..shown : basic.titles[k] = ReportSuccessful[k][2].title
           /\ (ReportGiven.extracted_content = <<BasicEntry(1, TRUE)>> /\ NoAnalysisGiven) =>
                  /\ "T" \in Range(basic.titles)
                  /\ basic.sources_analyzed = 1
                  /\ basic.sources_attempted = 1

C14_Witness_SixthTitleLeftOut ==
    /\ ReportReturned
    /\ ReportLeft.synthesized_report # <<>>
    /\ ReportLeft.synthesized_report[1].section = "basic"
    /\ Len(ReportGiven.extracted_content) = 6
    /\ ReportGiven.extracted_content[2][2].error
    /\ ReportLeft.synthesized_report[1].sources_analyzed = 5
    /\ ReportLeft.synthesized_report[1].titles = <<"T", "T3", "T4", "T5", "T6">>

\* C19: the bibliography of the full path has exactly one citation for each
\* entry of extracted_content without an error marker and none for a failed
\* entry, is in non-decreasing order of (domain, title), and sorting it
\* again gives the same list.
C19_BibliographySorted ==
    FullPathReturned =>
        LET bibliography == ReportLeft.source_bibliography
            content == ReportGiven.extracted_content
        IN /\ Len(bibliography) = Len(ReportSuccessful)
           /\ \A i \in 1..Len(content) :
                  Cardinality({k \in 1..Len(bibliography) :
                                  bibliography[k].url = content[i][1]})
                      = IF content[i][2].error THEN 0 ELSE 1
           /\ \A i, j \in 1..Len(bibliography) :
                  i < j => ~CitationBefore(bibliography[j], bibliography[i])
           /\ SortCitations(bibliography) = bibliography

C19_Witness_OrderChanged ==
    /\ FullPathReturned
    /\ Len(ReportLeft.source_bibliography) = 2
    /\ ReportLeft.source_bibliography[1].url = ReportGiven.extracted_content[2][1]
    /\ ReportLeft.source_bibliography[2].url = ReportGiven.extracted_content[1][1]

\* C20: on the full path synthesized_report is the narrative report, the
\* methodology section, the bibliography section and the metadata footer,
\* in this order; the footer is always its last part.
C20_FooterEndsFullReport ==
    FullPathReturned =>
        LET report == ReportLeft.synthesized_report
        IN /\ Len(report) >= 3
           /\ report[1].section = "report"
           /\ report[2].section = "methodology"
           /\ Len(report) = 4 => report[3].section = "bibliography"
           /\ report[Len(report)] =
                  metadata_footer(ReportGiven.key_findings, ReportGiven.research_gaps,
                                  ReportGiven.extracted_content)

\* C22: when writing the report file fails, the node still returns the state
\* with the report and current_step = report_generation_completed, and the
\* failure is an entry of the warning list, not of the error list.
C22_SaveFailureIsWarning ==
    (FullPathReturned /\ ~ret.llm.write_ok) =>
        /\ ret.result.raised = ""
        /\ ReportLeft.synthesized_report # <<>>
        /\ ReportLeft.current_step = "report_generation_completed"
        /\ ReportLeft.errors = ReportGiven.errors
        /\ Len(ReportLeft.warnings) = Len(ReportGiven.warnings) + 1

(***************************************************************************)
(* Properties of assess_content_quality                                    *)
(***************************************************************************)
\* the band of a title of n characters: 0.3 for 20 to 120, 0.2 for 10 to
\* 199, else 0.1
TitleBand(n) ==
    IF 20 <= n /\ n <= 120 THEN 300 ELSE IF 10 <= n /\ n <= 199 THEN 200 ELSE 100

\* C26: the content-quality score of a record is the title band (the else
\* band for every other title, an empty or missing one included), plus 0.2
\* if the title holds no clickbait phrase (an empty title holds none), plus
\* 0.2 for a snippet of more than 50 characters, plus 0.1 for a publish
\* date; capped at 1.0.
C26_ContentQualityIsBandSum ==
    (ret # NoCall /\ ret.fn = "assess_content_quality") =>
        ret.score = Min(1000, TitleBand(call.result.title_len)
                              + (IF ~call.result.clickbait THEN 200 ELSE 0)
                              + (IF call.result.snippet_len > 50 THEN 200 ELSE 0)
                              + (IF call.result.has_date THEN 100 ELSE 0))

(***************************************************************************)
(* Further properties of source_validation_function called on its own      *)
(***************************************************************************)
\* the pattern 0\.\d+|1\.0|0|1 finds nothing in a text without a 0 or a 1
NoNumberIn(content) == \A i \in 1..Len(content) : content[i] \notin {"0", "1"}

\* C27: for every source the model's credibility score used in the
\* composite lies in [0,1]; it is 0.5 when the completion call fails or its
\* answer holds no number, and such a failure aborts neither this source's
\* validation nor that of the remaining sources.
C27_LlmScoreDefaultsToHalf ==
    ValidationReturned =>
        LET res == ret.result IN
        /\ ~res.error
        /\ Len(res.decisions) = Len(call.search_results)
        /\ \A i \in 1..Len(res.decisions) :
               res.decisions[i].decision # "no_url" =>
                   /\ res.decisions[i].llm_score \in 0..1000
                   /\ (ret.exts[i].llm.raised \/ NoNumberIn(ret.exts[i].llm.content)) =>
                          /\ res.decisions[i].llm_score = 500
                          /\ res.decisions[i].final_score
                                 = RuleBasedScore2(assess_domain_credibility(
                                                       extract_domain(call.search_results[i].url)),
                                                   assess_content_quality(call.search_results[i]))
                                       * (Milli - call.llm_weight)
                                   + 2 * 500 * call.llm_weight

C27_Witness_FailedCallThenValidated ==
    /\ ValidationReturned
    /\ Len(call.search_results) = 2
    /\ ret.exts[1].llm.raised
    /\ ret.result.decisions[1].llm_score = 500
    /\ ret.result.decisions[1].decision # "no_url"
    /\ ~ret.exts[2].llm.raised
    /\ ret.result.decisions[2].llm_score = 375
    /\ ret.result.decisions[2].decision = "validated"

\* C29: after the validator every raw result is accounted for exactly once:
\* no URL is both a key of validated_sources and in removed_sources, and
\* total_validated + total_removed is the number of raw results, also when
\* the same URL occurs more than once with different verdicts.
C29_EveryResultCountedOnce ==
    ValidationReturned =>
        LET res == ret.result IN
        /\ \A i \in 1..Len(res.validated_sources), j \in 1..Len(res.removed_sources) :
               res.validated_sources[i][1] # res.removed_sources[j].url
        /\ res.total_validated + res.total_removed = Len(call.search_results)

====
